---- MODULE Spec2Model ----
(***************************************************************************)
(* Model of rally/task/processing/utils.py: the statistics helpers, the    *)
(* atomic-action extractor, the batch compressor (compress) and the        *)
(* streaming compressor (GraphZipper).                                     *)
(*                                                                         *)
(* Python floats are IEEE-754 doubles.  The weights of the GraphZipper and *)
(* the store of compress are modelled bit-exactly as signed fixed-point    *)
(* numbers in units of 2^-FracBits, held in two limbs (hi * Limb + lo),    *)
(* and every arithmetic result is rounded to MantBits significant bits,    *)
(* ties to even, as the hardware does.                                     *)
(***************************************************************************)
EXTENDS Integers, Sequences, FiniteSets, TLC

\* ------------------------------------------------------------------ bounds
MaxBase == 5        \* largest base_size tried
MaxZipped == 4      \* largest zipped_size tried
MaxValue == 1       \* numeric points are 0..MaxValue
MaxExtra == 2       \* add_point calls tried beyond base_size
MaxLen == 5         \* longest data given to compress
MaxLimit == 6       \* largest limit given to compress
MaxSamples == 4     \* longest list given to mean, median and percentile
MaxSample == 2      \* samples are 0..MaxSample
MaxRows == 2        \* most records given to get_atomic_actions_data
MaxDuration == 2    \* durations are 1..MaxDuration

\* ------------------------------------------------- IEEE-754 double emulation
MantBits == 53      \* significant bits of a double
FracBits == 55      \* the fixed-point unit is 2^-FracBits
LimbBits == 30      \* bits of the low limb
Limb == 2 ^ LimbBits
OneHi == 2 ^ (FracBits - LimbBits)            \* hi limb of 1.0
MantHi == 2 ^ (MantBits - LimbBits)           \* hi limb of 2^MantBits units

\* Magnitudes: <<hi, lo>> stands for hi * Limb + lo, 0 <= lo < Limb.
MZero == <<0, 0>>

MAdd(a, b) ==
    LET lo == a[2] + b[2]
    IN  <<a[1] + b[1] + (lo \div Limb), lo % Limb>>

\* a - b for a >= b
MSub(a, b) ==
    IF a[2] >= b[2] THEN <<a[1] - b[1], a[2] - b[2]>>
                    ELSE <<a[1] - b[1] - 1, a[2] + Limb - b[2]>>

MLt(a, b) == a[1] < b[1] \/ (a[1] = b[1] /\ a[2] < b[2])

MDouble(a) == MAdd(a, a)

RECURSIVE MTimes(_, _)
MTimes(a, k) == IF k = 0 THEN MZero ELSE MAdd(a, MTimes(a, k - 1))

\* Number of bits of a natural number, and of a magnitude.
RECURSIVE BitLen(_)
BitLen(x) == IF x = 0 THEN 0 ELSE 1 + BitLen(x \div 2)

MBitLen(m) == IF m[1] > 0 THEN LimbBits + BitLen(m[1]) ELSE BitLen(m[2])

\* Number of low bits a magnitude loses when it is kept to MantBits significant
\* bits.
ExcessBits(m) ==
    IF MBitLen(m) > MantBits THEN MBitLen(m) - MantBits ELSE 0

\* Round a magnitude to a multiple of g (a power of two), ties to even; sticky
\* says that the exact value has further non-zero bits below the unit.
RoundTo(m, g, sticky) ==
    LET low  == m[2] % g
        half == g \div 2
        odd  == (m[2] \div g) % 2 = 1
        up   == g > 1 /\ (low > half \/ (low = half /\ (sticky \/ odd)))
    IN  IF up THEN MAdd(<<m[1], m[2] - low>>, <<0, g>>) ELSE <<m[1], m[2] - low>>

\* Round a magnitude to MantBits significant bits.
MRound(m, sticky) == RoundTo(m, 2 ^ ExcessBits(m), sticky)

\* Signed fixed-point numbers.
Fix(neg, m) == [neg |-> neg /\ m # MZero, hi |-> m[1], lo |-> m[2]]
Mag(x) == <<x.hi, x.lo>>
FromInt(i) == Fix(i < 0, <<(IF i < 0 THEN -i ELSE i) * OneHi, 0>>)
FZero == FromInt(0)
FOne == FromInt(1)
FNeg(x) == Fix(~x.neg, Mag(x))

\* float addition: the exact sum, rounded
FAdd(x, y) ==
    IF x.neg = y.neg THEN Fix(x.neg, MRound(MAdd(Mag(x), Mag(y)), FALSE))
    ELSE IF MLt(Mag(x), Mag(y)) THEN Fix(y.neg, MRound(MSub(Mag(y), Mag(x)), FALSE))
    ELSE Fix(x.neg, MRound(MSub(Mag(x), Mag(y)), FALSE))

FSub(x, y) == FAdd(x, FNeg(y))

FLt(x, y) ==
    IF x.neg # y.neg THEN x.neg
    ELSE IF x.neg THEN MLt(Mag(y), Mag(x)) ELSE MLt(Mag(x), Mag(y))

FLe(x, y) == x = y \/ FLt(x, y)

\* float * small int: the exact product, rounded
FTimesInt(x, k) == Fix(x.neg, MRound(MTimes(Mag(x), k), FALSE))

\* int(x / 2.0): halving is exact, int() truncates toward zero
IntOfHalf(x) == (IF x.neg THEN -1 ELSE 1) * (x.hi \div (2 * OneHi))

\* A double in general position: mantissa <<hi, lo>> with MantBits significant
\* bits (2^(MantBits-1) <= mantissa < 2^MantBits) times 2^(exp - MantBits + 1);
\* zero has mantissa 0.
Dbl(neg, m, e) == [neg |-> neg /\ m # MZero, hi |-> m[1], lo |-> m[2],
                   exp |-> IF m = MZero THEN 0 ELSE e]
DZero == Dbl(FALSE, MZero, 0)

\* m * 2^k, for a result that fits the two limbs.
MShiftLeft(m, k) ==
    IF k >= LimbBits THEN <<m[2] * 2 ^ (k - LimbBits), 0>>
    ELSE LET cut == 2 ^ (LimbBits - k)
         IN  <<m[1] * 2 ^ k + (m[2] \div cut), (m[2] % cut) * 2 ^ k>>

\* Long division: the next `bits` (at most LimbBits) quotient bits of r / d for
\* a remainder r < 2d, as <<quotient bits, doubled remainder>>.
RECURSIVE QuotBits(_, _, _)
QuotBits(r, d, bits) ==
    IF bits = 1
    THEN IF MLt(r, d) THEN <<0, MDouble(r)>> ELSE <<1, MDouble(MSub(r, d))>>
    ELSE LET h  == bits \div 2
             a  == QuotBits(r, d, h)
             b  == QuotBits(a[2], d, bits - h)
         IN  <<a[1] * 2 ^ (bits - h) + b[1], b[2]>>

\* The quotient bits b that follow the high bits hi: <<quotient, remainder>>.
QuotJoin(hi, b) == <<<<hi, b[1]>>, b[2]>>

\* The low LimbBits quotient bits after the high ones a.
QuotLow(a, d) == QuotJoin(a[1], QuotBits(a[2], d, LimbBits))

\* A mantissa that rounding carried to 2^MantBits moves to the next binade.
Carried(m) == IF m[1] >= MantHi THEN <<<<MantHi \div 2, 0>>, 1>> ELSE <<m, 0>>

\* Round the MantBits-bit quotient qr[1] with doubled remainder qr[2] to
\* nearest, ties to even.
RoundQuotient(qr, d) ==
    LET round == ~MLt(qr[2], d)
        up    == round /\ (MSub(qr[2], d) # MZero \/ qr[1][2] % 2 = 1)
    IN  Carried(IF up THEN MAdd(qr[1], <<0, 1>>) ELSE qr[1])

\* n / d for d <= n < 2d: the MantBits-bit mantissa of the quotient, rounded
\* to nearest, ties to even, and whether rounding carried into the next binade.
DivMantissa(n, d) ==
    RoundQuotient(QuotLow(QuotBits(n, d, MantBits - LimbBits), d), d)

\* The mantissa and carry me at exponent e.
WithExp(me, e) == <<me[1], e + me[2]>>

\* n / d where MBitLen(n) - MBitLen(d) = k: scale n or d by a power of two so
\* that d <= n < 2d, then divide.
DivScaled(n, d, k) ==
    LET n1 == IF k < 0 THEN MShiftLeft(n, -k) ELSE n
        d1 == IF k > 0 THEN MShiftLeft(d, k) ELSE d
        lt == MLt(n1, d1)
    IN  WithExp(DivMantissa(IF lt /\ k <= 0 THEN MDouble(n1) ELSE n1,
                            IF lt /\ k > 0 THEN MShiftLeft(d, k - 1) ELSE d1),
                IF lt THEN k - 1 ELSE k)

\* n / d as <<mantissa, exponent>>.
DivAligned(n, d) == DivScaled(n, d, MBitLen(n) - MBitLen(d))

\* The double with sign neg, and mantissa and exponent me.
DblOf(neg, me) == Dbl(neg, me[1], me[2])

\* float division x / y (y # 0): the exact quotient, rounded
FDiv(x, y) ==
    IF Mag(x) = MZero THEN DZero
    ELSE DblOf(x.neg # y.neg, DivAligned(Mag(x), Mag(y)))

\* The fixed-point form of a double whose bits all lie at or above the unit.
ToFixAt(d, frac) ==
    Fix(d.neg, MShiftLeft(<<d.hi, d.lo>>, d.exp + frac - MantBits + 1))

ToFix(d) == ToFixAt(d, FracBits)

\* How a call ended: it returned x, returned None, or raised e.
Returned(x) == [outcome |-> "returned", result |-> <<x>>]
ReturnedNone == [outcome |-> "returned", result |-> <<>>]
Raised(e) == [outcome |-> e, result |-> <<>>]
NotCalled == [outcome |-> "none", result |-> <<>>]

\* ------------------------------------------------------------ GraphZipper
VARIABLES
    base_size,            \* self.base_size
    zipped_size,          \* self.zipped_size
    compression_ratio,    \* self.compression_ratio
    point_order,          \* self.point_order
    cached_ratios_sum,    \* self.cached_ratios_sum
    ratio_value_points,   \* self.ratio_value_points: <<weight, value>> pairs
    zipped_graph,         \* self.zipped_graph: <<order, value>> pairs
    outcome,              \* how the last call ended
    returned,             \* what the last call returned: <<>> for None, or <<list>>
    calls,                \* history: number of add_point calls made so far
    submitted,            \* history: the arguments of the calls that succeeded
    windows               \* history: ratio_value_points as each call of
                          \* _get_zipped_point found it

zvars == <<base_size, zipped_size, compression_ratio, point_order,
           cached_ratios_sum, ratio_value_points, zipped_graph, outcome,
           returned, calls, submitted, windows>>

None == "None"

\* What a caller may pass to add_point: an int, or something that is no number.
IntPoint(v) == [numeric |-> TRUE, val |-> v]
NonNumeric == [numeric |-> FALSE, val |-> "text"]
Points == {IntPoint(v) : v \in 0..MaxValue} \cup {NonNumeric}

\* Faulty variant: integer division, as without the float() conversion.
RatioOfFloorDiv(base, zipped) ==
    IF base >= zipped THEN FromInt(base \div zipped) ELSE FromInt(1)

\* GraphZipper.__init__
RatioOf(base, zipped) ==
    IF base >= zipped THEN ToFix(FDiv(FromInt(base), FromInt(zipped)))
                      ELSE FromInt(1)

ZipperInit ==
    /\ base_size \in 0..MaxBase
    /\ zipped_size \in 1..MaxZipped
    /\ compression_ratio = RatioOf(base_size, zipped_size)
    /\ point_order = 0
    /\ cached_ratios_sum = FromInt(0)
    /\ ratio_value_points = <<>>
    /\ zipped_graph = <<>>
    /\ outcome = "constructed"
    /\ returned = <<>>
    /\ calls = 0
    /\ submitted = <<>>
    /\ windows = <<>>

\* sum(p[0] * p[1] for p in points), added left to right starting from 0
RECURSIVE WeightedSum(_, _)
WeightedSum(points, n) ==
    IF n = 0 THEN FromInt(0)
    ELSE FAdd(WeightedSum(points, n - 1), FTimesInt(points[n][1], points[n][2]))

\* Faulty variant: the "near the start" test reaches one point too far.
ZippedOrderWideStart(order, base, ratio) ==
    IF FLe(FSub(FromInt(order), ratio), FromInt(2)) THEN 1
    ELSE IF order = base THEN base
    ELSE order - IntOfHalf(ratio)

\* GraphZipper._get_zipped_point, for the point order and pending points given
ZippedOrder(order, base, ratio) ==
    IF FLe(FSub(FromInt(order), ratio), FromInt(1)) THEN 1
    ELSE IF order = base THEN base
    ELSE order - IntOfHalf(ratio)

ZippedPoint(order, base, ratio, points) ==
    <<ZippedOrder(order, base, ratio),
      FDiv(WeightedSum(points, Len(points)), ratio)>>

\* Faulty variant: the isinstance test inverted.
CoerceInverted(p) == IF p.numeric THEN 0 ELSE p.val

\* Faulty variant: what is no number counts as 1.
CoerceToOne(p) == IF p.numeric THEN p.val ELSE 1

\* isinstance(value, (int, float)) or else 0
Coerce(p) == IF p.numeric THEN p.val ELSE 0

\* Faulty variant: the capacity check off by one.
IsFullOffByOne(order, base) == order >= base

\* The capacity check of add_point, on the incremented point order.
IsFull(order, base) == order > base

\* Faulty variant: the point order is only counted up while there is room.
NextPointOrderGuarded(order) == IF order < base_size THEN order + 1 ELSE order

\* self.point_order += 1
NextPointOrder(order) == order + 1

\* Faulty variant: the new point takes the place of the last one.
EmitOverLast(graph, point) ==
    IF graph = <<>> THEN <<point>> ELSE [graph EXCEPT ![Len(graph)] = point]

\* self.zipped_graph.append(point)
Emit(graph, point) == Append(graph, point)

\* Faulty variant: the point that closes a window is given to it whole.
RestWhole(ratio, cached) == FromInt(1)

\* rest = self.compression_ratio - self.cached_ratios_sum
Rest(ratio, cached) == FSub(ratio, cached)

\* Faulty variant: the point that closes a window is carried over whole.
LeftoverWhole(rest) == FromInt(1)

\* 1 - rest, the weight carried into the next window
Leftover(rest) == FSub(FromInt(1), rest)

\* What add_point(value) does to the GraphZipper and how it ends.
Submit(p) ==
    LET order == NextPointOrder(point_order)
        value == Coerce(p)
    IN  /\ calls < base_size + MaxExtra
        /\ calls' = calls + 1
        /\ point_order' = order
        /\ returned' = <<>>
        /\ UNCHANGED <<base_size, zipped_size, compression_ratio>>
        /\ IF IsFull(order, base_size)
           THEN /\ outcome' = "RuntimeError"
                /\ UNCHANGED <<cached_ratios_sum, ratio_value_points, zipped_graph,
                               windows>>
           ELSE /\ outcome' = "ok"
                /\ IF FLe(compression_ratio, FromInt(1))
                   THEN /\ zipped_graph' = Emit(zipped_graph, <<order, value>>)
                        /\ UNCHANGED <<cached_ratios_sum, ratio_value_points,
                                       windows>>
                   ELSE IF FLt(FAdd(cached_ratios_sum, FromInt(1)), compression_ratio)
                   THEN /\ cached_ratios_sum' = FAdd(cached_ratios_sum, FromInt(1))
                        /\ ratio_value_points' =
                               Append(ratio_value_points, <<FromInt(1), value>>)
                        /\ UNCHANGED <<zipped_graph, windows>>
                   ELSE LET rest   == Rest(compression_ratio, cached_ratios_sum)
                            points == Append(ratio_value_points, <<rest, value>>)
                            carry  == Leftover(rest)
                        IN  /\ zipped_graph' =
                                   Emit(zipped_graph,
                                        ZippedPoint(order, base_size,
                                                    compression_ratio, points))
                            /\ windows' = Append(windows, points)
                            /\ ratio_value_points' = <<<<carry, value>>>>
                            /\ cached_ratios_sum' = carry

\* GraphZipper.add_point(value), with the arguments of the calls that
\* succeeded kept as history
AddPoint(p) ==
    /\ Submit(p)
    /\ submitted' = IF outcome' = "ok" THEN Append(submitted, p) ELSE submitted

\* GraphZipper.get_zipped_graph()
GetZippedGraph ==
    /\ outcome' = "ok"
    /\ returned' = <<zipped_graph>>
    /\ UNCHANGED <<base_size, zipped_size, compression_ratio, point_order,
                   cached_ratios_sum, ratio_value_points, zipped_graph, calls,
                   submitted, windows>>

\* ---------------------------------------------------------------- compress
VARIABLES
    data,          \* the argument data
    limit,         \* the argument limit
    compressed     \* what compress returned, None before the call

cvars == <<data, limit, compressed>>

\* The values of compress are doubles below 2, held in units of 2^-ValFracBits:
\* fine enough for every double from 0.01 up.
ValFracBits == 59
DigitBits == 15
Digit == 2 ^ DigitBits

\* The number k / 8 as a value.
Eighths(k) == Fix(FALSE, <<k * 2 ^ (ValFracBits - LimbBits - 3), 0>>)
VZero == Eighths(0)

\* The decimal rounding of round(x, 2): the integer nearest to
\* k * m / 2^(4 * DigitBits), ties to even, by schoolbook multiplication of the
\* magnitude m in digits of DigitBits bits.
Hundredths(m, k) ==
    LET l0  == m[2] % Digit
        l1  == m[2] \div Digit
        h0  == m[1] % Digit
        h1  == m[1] \div Digit
        p0  == k * l0
        p1  == k * l1 + (p0 \div Digit)
        p2  == k * h0 + (p1 \div Digit)
        p3  == k * h1 + (p2 \div Digit)
        whole == p3 \div Digit
        frac  == p3 % Digit
        below == (p0 % Digit) + (p1 % Digit) + (p2 % Digit)
        up  == \/ frac > Digit \div 2
               \/ frac = Digit \div 2 /\ (below > 0 \/ whole % 2 = 1)
    IN  IF up THEN whole + 1 ELSE whole

\* The double nearest to h / 100.
OfHundredths(h) ==
    IF h = 0 THEN VZero
    ELSE ToFixAt(DblOf(FALSE, DivAligned(<<0, h>>, <<0, 100>>)), ValFracBits)

\* round(v * k / 200, 2), or 0.0 for zero
RoundedTo2(v, k) ==
    IF Mag(v) = MZero THEN VZero ELSE OfHundredths(Hundredths(Mag(v), k))

\* Faulty variant: normalize truncates to whole numbers.
NormalizeWhole(v) == Fix(FALSE, <<(v.hi \div 2 ^ (ValFracBits - LimbBits))
                                    * 2 ^ (ValFracBits - LimbBits), 0>>)

\* normalize = lambda i: i and round(float(i), 2) or 0.0
Normalize(v) == RoundedTo2(v, 200)

\* merge = lambda a, b: normalize((a + normalize(b)) / 2)
Merge(a, b) == RoundedTo2(FAdd(a, Normalize(b)), 100)

\* factor = float(limit) / len(data)
Factor(lim, n) == ToFix(FDiv(FromInt(lim), FromInt(n)))

\* Faulty variant: flushes as soon as the store reaches 1.
FlushDueAtOne(store) == FLe(FromInt(1), store)

\* if store > 1
FlushDue(store) == FLt(FromInt(1), store)

\* Faulty variant: the short-input test is strict.
FitsStrict(n, lim) == n < lim

\* if len(data) <= limit
Fits(n, lim) == n <= lim

\* Faulty variant: the trailing flush is made whether or not a run is open.
TrailingAlways(first) == TRUE

\* if not first
Trailing(first) == ~first

\* The end of an iteration of the loop, from `if store > 1` on.
Flush(p, idx, store, cur) ==
    LET flush == FlushDue(store)
    IN  [store     |-> IF flush THEN FSub(store, FromInt(1)) ELSE store,
         first     |-> flush,
         cur_value |-> cur,
         result    |-> IF flush THEN Append(p.result, <<idx, cur>>)
                                ELSE p.result]

\* Faulty variant: every iteration starts the run anew with its own value.
LoopBodyRestarting(p, idx, value, factor) ==
    Flush(p, idx, FAdd(p.store, factor), Normalize(value))

\* One iteration of the loop of compress: the loop's variables after the
\* iteration for data[idx] = value, from their values p before it.
LoopBody(p, idx, value, factor) ==
    Flush(p, idx, FAdd(p.store, factor),
          IF p.first THEN Normalize(value) ELSE Merge(p.cur_value, value))

\* The loop of compress after its first n iterations.
RECURSIVE CompressLoop(_, _, _)
CompressLoop(d, factor, n) ==
    IF n = 0
    THEN [store |-> FromInt(0), first |-> TRUE, cur_value |-> None, result |-> <<>>]
    ELSE LoopBody(CompressLoop(d, factor, n - 1), n, d[n], factor)

\* The trailing flush and the return.
Finish(end, n) ==
    IF Trailing(end.first)
    THEN Returned(Append(end.result, <<n, end.cur_value>>))
    ELSE Returned(end.result)

\* compress(data, limit) with the default merge and normalize
Compress(d, lim) ==
    IF Fits(Len(d), lim)
    THEN Returned([i \in 1..Len(d) |-> <<i, Normalize(d[i])>>])
    ELSE IF Len(d) = 0 THEN Raised("ZeroDivisionError")
    ELSE Finish(CompressLoop(d, Factor(lim, Len(d)), Len(d)), Len(d))

\* -------------------------------------------------------------- statistics
VARIABLES
    values,        \* the caller's list, passed to mean, median or percentile
    percent,       \* the percent the caller passes to percentile
    stat_call,     \* the function called last
    stat_result,   \* how it ended: [outcome, result]
    given          \* history: the caller's list as it was before any call

svars == <<values, percent, stat_call, stat_result, given>>

\* Python numbers are compared by value: a returned number is held as the
\* double of that value.
DblOfFix(x) == FDiv(x, FromInt(1))
DblOfInt(i) == DblOfFix(FromInt(i))

RECURSIVE SumSeq(_)
SumSeq(vs) == IF vs = <<>> THEN 0 ELSE vs[1] + SumSeq(Tail(vs))

\* v inserted into the ascending sequence vs
RECURSIVE Insert(_, _)
Insert(vs, v) ==
    IF vs = <<>> THEN <<v>>
    ELSE IF v < vs[1] THEN <<v>> \o vs
    ELSE <<vs[1]>> \o Insert(Tail(vs), v)

\* sorted(values)
RECURSIVE Sorted(_)
Sorted(vs) == IF vs = <<>> THEN <<>> ELSE Insert(Sorted(Tail(vs)), vs[1])

\* mean(values)
Mean(vs) ==
    IF vs = <<>> THEN Raised("InvalidArgumentsException")
    ELSE Returned(FDiv(FromInt(SumSeq(vs)), FromInt(Len(vs))))

\* Faulty variant: for an even size the upper middle value is returned.
MedianOfUpper(vs) ==
    IF vs = <<>> THEN Raised("ValueError")
    ELSE Returned(DblOfInt(Sorted(vs)[Len(vs) \div 2 + 1]))

\* median(values)
Median(vs) ==
    IF vs = <<>> THEN Raised("ValueError")
    ELSE LET sorted == Sorted(vs)
             size   == Len(sorted)
             index  == size \div 2
         IN  IF size % 2 = 1
             THEN Returned(DblOfInt(sorted[index + 1]))
             ELSE Returned(FDiv(FromInt(sorted[index] + sorted[index + 1]),
                                FromInt(2)))

\* math.floor and math.ceil of a float that is not negative
Floor(x) == x.hi \div OneHi
Ceil(x) == IF x.hi % OneHi = 0 /\ x.lo = 0 THEN Floor(x) ELSE Floor(x) + 1

\* Faulty variant: percentile raises on an empty list, as median does.
PercentileOfEmptyRaises == Raised("ValueError")

\* percentile(values, percent) on an empty list
PercentileOfEmpty == ReturnedNone

\* percentile(values, percent): the outcome, for the list as values.sort()
\* leaves it
Percentile(vs, pct) ==
    IF vs = <<>> THEN PercentileOfEmpty
    ELSE LET sorted == Sorted(vs)
             k == FTimesInt(pct, Len(sorted) - 1)
             f == Floor(k)
             c == Ceil(k)
             d0 == FTimesInt(FSub(FromInt(c), k), sorted[f + 1])
             d1 == FTimesInt(FSub(k, FromInt(f)), sorted[c + 1])
         IN  IF f = c THEN Returned(DblOfInt(sorted[f + 1]))
             ELSE Returned(DblOfFix(FAdd(d0, d1)))

\* Faulty variant: percentile sorts a copy, as median does.
AfterPercentileOfCopy(vs) == vs

\* The caller's list after percentile(values, percent).
AfterPercentile(vs) == IF vs = <<>> THEN vs ELSE Sorted(vs)

PercentOf(num, den) == ToFix(FDiv(FromInt(num), FromInt(den)))
Percents == {PercentOf(0, 1), PercentOf(1, 4), PercentOf(1, 2), PercentOf(9, 10),
             PercentOf(1, 1)}

CallMean ==
    /\ stat_call' = "mean"
    /\ stat_result' = Mean(values)
    /\ UNCHANGED <<values, percent, given>>

CallMedian ==
    /\ stat_call' = "median"
    /\ stat_result' = Median(values)
    /\ UNCHANGED <<values, percent, given>>

CallPercentile(pct) ==
    /\ stat_call' = "percentile"
    /\ percent' = pct
    /\ stat_result' = Percentile(values, pct)
    /\ values' = AfterPercentile(values)
    /\ UNCHANGED given

\* ------------------------------------------------- get_atomic_actions_data
VARIABLES
    raw_data,      \* the argument: the list of raw records
    actions_data   \* what the call did: [outcome, result]

avars == <<raw_data, actions_data>>

\* An atomic-actions mapping is a sequence of entries in insertion order, each
\* [name, value] with value <<>> for None and <<d>> for the duration d.  A
\* record may lack the "atomic_actions" key altogether (has_actions = FALSE).
\* The actions a record times take the record's own duration, so that the
\* values differ from record to record.
Names == {"a", "b"}
EntryValues == {<<>>} \cup {<<d>> : d \in 1..1}
Entries == [name : Names, value : EntryValues]
Mappings ==
    {<<>>} \cup {<<e>> : e \in Entries}
           \cup {p \in Entries \X Entries : p[1].name # p[2].name}

\* The mapping m with every duration in it set to d.
Timed(m, d) ==
    [i \in 1..Len(m) |->
        [name |-> m[i].name,
         value |-> IF m[i].value = <<>> THEN <<>> ELSE <<d>>]]

Rows ==
    {[error |-> e, has_actions |-> TRUE, atomic_actions |-> Timed(m, d),
      duration |-> d] : e \in BOOLEAN, m \in Mappings, d \in 1..MaxDuration}
    \cup [error : BOOLEAN, has_actions : {FALSE}, atomic_actions : {<<>>},
          duration : 1..MaxDuration]

\* row["atomic_actions"].keys()
Keys(mapping) == [i \in 1..Len(mapping) |-> mapping[i].name]

\* mapping.get(name): <<>> for None
Get(mapping, name) ==
    IF \E i \in 1..Len(mapping) : mapping[i].name = name
    THEN mapping[CHOOSE i \in 1..Len(mapping) : mapping[i].name = name].value
    ELSE <<>>

\* Faulty variant: the error flag is not looked at.
NamesRowAnyError(row) == row.has_actions

\* if not row["error"] and "atomic_actions" in row
NamesRow(row) == ~row.error /\ row.has_actions

\* The first loop: the keys of the first row NamesRow accepts, from row n on.
RECURSIVE AtomicActions(_, _)
AtomicActions(raw, n) ==
    IF n > Len(raw) THEN <<>>
    ELSE IF NamesRow(raw[n]) THEN Keys(raw[n].atomic_actions)
    ELSE AtomicActions(raw, n + 1)

\* Faulty variant: the records with an error are left out of an action's list.
RECURSIVE ActionSeriesOfGood(_, _, _)
ActionSeriesOfGood(raw, name, n) ==
    IF n = 0 THEN <<>>
    ELSE ActionSeriesOfGood(raw, name, n - 1)
             \o (IF raw[n].error THEN <<>> ELSE Get(raw[n].atomic_actions, name))

\* [r["atomic_actions"][name] for r in raw_data
\*  if r["atomic_actions"].get(name) is not None]
RECURSIVE ActionSeries(_, _, _)
ActionSeries(raw, name, n) ==
    IF n = 0 THEN <<>>
    ELSE LET got == Get(raw[n].atomic_actions, name)
         IN  ActionSeries(raw, name, n - 1) \o got

\* [r["duration"] for r in raw_data if not r["error"]]
RECURSIVE TotalSeries(_, _)
TotalSeries(raw, n) ==
    IF n = 0 THEN <<>>
    ELSE TotalSeries(raw, n - 1)
             \o (IF raw[n].error THEN <<>> ELSE <<raw[n].duration>>)

\* get_atomic_actions_data(raw_data): the ordered mapping, as a sequence of
\* <<name, series>> pairs, or the KeyError of a row without "atomic_actions"
GetAtomicActionsData(raw) ==
    LET atomic_actions == AtomicActions(raw, 1)
    IN  IF atomic_actions # <<>> /\ \E n \in 1..Len(raw) : ~raw[n].has_actions
        THEN Raised("KeyError")
        ELSE Returned([i \in 1..Len(atomic_actions) |->
                           <<atomic_actions[i],
                             ActionSeries(raw, atomic_actions[i], Len(raw))>>]
                      \o <<<<"total", TotalSeries(raw, Len(raw))>>>>)

CallGetAtomicActionsData ==
    /\ actions_data = NotCalled
    /\ actions_data' = GetAtomicActionsData(raw_data)
    /\ UNCHANGED raw_data

\* ----------------------------------------------------------- specifications
SeqsUpTo(S, n) == UNION {[1..k -> S] : k \in 0..n}

DataValues == {Eighths(0), Eighths(1), Eighths(8)}

CallCompress ==
    /\ compressed = NotCalled
    /\ compressed' = Compress(data, limit)
    /\ UNCHANGED <<data, limit>>

vars == <<zvars, cvars, svars, avars>>

\* Each specification runs one component; the others stay as constructed here.
ZipperIdle ==
    /\ base_size = 0
    /\ zipped_size = 1
    /\ compression_ratio = RatioOf(0, 1)
    /\ point_order = 0
    /\ cached_ratios_sum = FromInt(0)
    /\ ratio_value_points = <<>>
    /\ zipped_graph = <<>>
    /\ outcome = "constructed"
    /\ returned = <<>>
    /\ calls = 0
    /\ submitted = <<>>
    /\ windows = <<>>

CompressIdle == data = <<>> /\ limit = 0 /\ compressed = NotCalled

StatsIdle ==
    /\ values = <<>>
    /\ percent = PercentOf(0, 1)
    /\ stat_call = "none"
    /\ stat_result = NotCalled
    /\ given = values

AtomicIdle == raw_data = <<>> /\ actions_data = NotCalled

\* GraphZipper
Init == ZipperInit /\ CompressIdle /\ StatsIdle /\ AtomicIdle

Next ==
    \/ \E p \in Points : AddPoint(p) /\ UNCHANGED <<cvars, svars, avars>>
    \/ GetZippedGraph /\ UNCHANGED <<cvars, svars, avars>>

Spec == Init /\ [][Next]_vars

\* GraphZipper, given numbers only and no more of them than base_size.  The
\* numbers include 7, whose products with the weights are rounded; with it the
\* weighted sums stay in range for zipped_size >= 2.
WindowValues == {0, 1, 7}

InitWindows == Init /\ zipped_size >= 2

NextWindows ==
    \E v \in WindowValues :
        /\ calls < base_size
        /\ AddPoint(IntPoint(v))
        /\ UNCHANGED <<cvars, svars, avars>>

SpecWindows == InitWindows /\ [][NextWindows]_vars

\* compress
InitCompress ==
    /\ data \in SeqsUpTo(DataValues, MaxLen)
    /\ limit \in -1..MaxLimit
    /\ compressed = NotCalled
    /\ ZipperIdle /\ StatsIdle /\ AtomicIdle

NextCompress == CallCompress /\ UNCHANGED <<zvars, svars, avars>>

SpecCompress == InitCompress /\ [][NextCompress]_vars

\* mean, median, percentile
InitStats ==
    /\ values \in SeqsUpTo(0..MaxSample, MaxSamples)
    /\ percent = PercentOf(0, 1)
    /\ stat_call = "none"
    /\ stat_result = NotCalled
    /\ given = values
    /\ ZipperIdle /\ CompressIdle /\ AtomicIdle

NextStats ==
    \/ CallMean /\ UNCHANGED <<zvars, cvars, avars>>
    \/ CallMedian /\ UNCHANGED <<zvars, cvars, avars>>
    \/ \E pct \in Percents : CallPercentile(pct) /\ UNCHANGED <<zvars, cvars, avars>>

SpecStats == InitStats /\ [][NextStats]_vars

\* get_atomic_actions_data
InitAtomic ==
    /\ raw_data \in SeqsUpTo(Rows, MaxRows)
    /\ actions_data = NotCalled
    /\ ZipperIdle /\ CompressIdle /\ StatsIdle

NextAtomic == CallGetAtomicActionsData /\ UNCHANGED <<zvars, cvars, svars>>

SpecAtomic == InitAtomic /\ [][NextAtomic]_vars

\* ----------------------------------------------------- GraphZipper claims
Compressing == FLt(FromInt(1), compression_ratio)

\* C1: each of the first base_size calls of add_point succeeds and every later
\* call fails with the RuntimeError; a failing call leaves zipped_graph,
\* ratio_value_points and cached_ratios_sum as they were.
C1_CapacityError ==
    [][calls' = calls + 1 =>
         /\ calls' <= base_size => outcome' = "ok"
         /\ calls' > base_size =>
              /\ outcome' = "RuntimeError"
              /\ zipped_graph' = zipped_graph
              /\ ratio_value_points' = ratio_value_points
              /\ cached_ratios_sum' = cached_ratios_sum]_vars

C1_Witness ==
    /\ outcome = "RuntimeError"
    /\ calls = base_size + 2
    /\ base_size > 2
    /\ zipped_graph # <<>>
    /\ ratio_value_points # <<>>

\* C2, as claimed: point_order never exceeds base_size, also in the state a
\* failed add_point call leaves behind.
C2_PointOrderBounded == point_order <= base_size

\* C2, amended: point_order counts every add_point call, the failed ones too;
\* it is above base_size exactly when a call has failed.
C2_PointOrderCountsCalls ==
    /\ point_order = calls
    /\ outcome = "RuntimeError" => point_order > base_size
    /\ point_order > base_size => calls > base_size

C2_Witness ==
    /\ outcome = "RuntimeError"
    /\ point_order = base_size + 2
    /\ base_size > 0

\* C3: zipped_graph never has more than zipped_size + 1 points, and once
\* base_size >= zipped_size points have all been added it has at least
\* zipped_size - 1.
C3_ZippedLength ==
    /\ Len(zipped_graph) <= zipped_size + 1
    /\ (base_size >= zipped_size /\ calls >= base_size)
           => Len(zipped_graph) >= zipped_size - 1

\* All points are in and the output is one short of zipped_size.
C3_Witness ==
    /\ base_size > zipped_size
    /\ calls = base_size
    /\ Len(zipped_graph) = zipped_size - 1
    /\ zipped_size > 1

AllNumeric == \A i \in 1..Len(submitted) : submitted[i].numeric

\* C4: with base_size <= zipped_size, after k <= base_size calls with numeric
\* values v_1..v_k, zipped_graph is [[1, v_1], ..., [k, v_k]].
C4_Passthrough ==
    (base_size <= zipped_size /\ AllNumeric)
        => zipped_graph = [i \in 1..Len(submitted) |-> <<i, submitted[i].val>>]

C4_Witness ==
    /\ base_size = zipped_size
    /\ AllNumeric
    /\ Len(submitted) = base_size
    /\ Len(zipped_graph) >= 3
    /\ \E i \in 1..Len(submitted) : submitted[i].val # 0

\* C5: the positions in zipped_graph increase strictly from one point to the
\* next, and each is between 1 and base_size.
C5_PositionsIncrease ==
    /\ \A i \in 1..Len(zipped_graph) :
           zipped_graph[i][1] >= 1 /\ zipped_graph[i][1] <= base_size
    /\ \A i \in 1..(Len(zipped_graph) - 1) :
           zipped_graph[i][1] < zipped_graph[i + 1][1]

\* Three flushed windows: the first at position 1, one placed by the centring
\* rule, the last at base_size.
C5_Witness ==
    /\ Compressing
    /\ Len(zipped_graph) >= 3
    /\ zipped_graph[1][1] = 1
    /\ zipped_graph[2][1] = 3
    /\ zipped_graph[Len(zipped_graph)][1] = base_size

\* C12: an add_point call leaves the points already in zipped_graph as they
\* are and adds at most one point at the end; get_zipped_graph changes none of
\* the fields of the GraphZipper, and it can be called in every state.
C12_AppendOnly ==
    /\ [][/\ Len(zipped_graph') \in {Len(zipped_graph), Len(zipped_graph) + 1}
          /\ SubSeq(zipped_graph', 1, Len(zipped_graph)) = zipped_graph
          /\ calls' = calls =>
                 UNCHANGED <<base_size, zipped_size, compression_ratio,
                             point_order, cached_ratios_sum, ratio_value_points,
                             zipped_graph>>]_vars
    /\ [](ENABLED GetZippedGraph)

\* A partial output of two points, read before all points are in.
C12_Witness ==
    /\ Compressing
    /\ calls < base_size
    /\ Len(zipped_graph) >= 2
    /\ returned = <<zipped_graph>>

RECURSIVE WeightSum(_, _)
WeightSum(points, n) ==
    IF n = 0 THEN MZero ELSE MAdd(WeightSum(points, n - 1), Mag(points[n][1]))

\* Every weight of the contributions is between 0 and 1.
WeightsInRange(points) ==
    \A i \in 1..Len(points) :
        ~points[i][1].neg /\ ~MLt(Mag(FOne), Mag(points[i][1]))

\* Every contribution has the value c.
AllOf(points, c) == \A i \in 1..Len(points) : points[i][2] = c

\* cached_ratios_sum is the sum of the pending weights, every weight is
\* between 0 and 1, and the weights of every flushed window sum to exactly
\* compression_ratio.
WeightsAddUp ==
    /\ ~cached_ratios_sum.neg
    /\ Mag(cached_ratios_sum)
           = WeightSum(ratio_value_points, Len(ratio_value_points))
    /\ WeightsInRange(ratio_value_points)
    /\ Len(windows) = Len(zipped_graph)
    /\ \A k \in 1..Len(windows) :
           /\ WeightsInRange(windows[k])
           /\ WeightSum(windows[k], Len(windows[k])) = Mag(compression_ratio)

\* The double d is within c * 2^-52 of the whole number c.
Near(d, c) ==
    MLt(Mag(FSub(ToFix(d), FromInt(c))), <<0, c * 2 ^ (FracBits - 52) + 1>>)

Digits(m) == <<m[2] % Digit, m[2] \div Digit, m[1] % Digit, m[1] \div Digit>>

DigitAt(x, i) == IF i <= Len(x) THEN x[i] ELSE 0

\* The digits of a * b from digit i of a on, for one digit b and a carry.
RECURSIVE TimesDigit(_, _, _, _)
RECURSIVE TimesDigitPut(_, _, _, _)
TimesDigit(a, b, i, carry) ==
    IF i > Len(a) THEN <<carry>> ELSE TimesDigitPut(a, b, i, a[i] * b + carry)
TimesDigitPut(a, b, i, t) == <<t % Digit>> \o TimesDigit(a, b, i + 1, t \div Digit)

\* The digits i..8 of x + y, for a carry.
RECURSIVE AddDigits(_, _, _, _)
RECURSIVE AddDigitsPut(_, _, _, _)
AddDigits(x, y, i, carry) ==
    IF i > 8 THEN <<>>
    ELSE AddDigitsPut(x, y, i, DigitAt(x, i) + DigitAt(y, i) + carry)
AddDigitsPut(x, y, i, t) == <<t % Digit>> \o AddDigits(x, y, i + 1, t \div Digit)

\* x * 2^(k * DigitBits)
ShiftDigits(x, k) == [i \in 1..k |-> 0] \o x

\* a times the lowest j digits of b, as eight digits.
RECURSIVE TimesDigits(_, _, _)
TimesDigits(a, b, j) ==
    IF j = 0 THEN <<>>
    ELSE AddDigits(TimesDigits(a, b, j - 1),
                   ShiftDigits(TimesDigit(a, b[j], 1, 0), j - 1), 1, 0)

\* The exact product of two magnitudes, in units of 2^-(2 * FracBits).
Times(m, n) == TimesDigits(Digits(m), Digits(n), 4)

\* x <= y for numbers of eight digits, compared from digit i down.
RECURSIVE DigitsLe(_, _, _)
DigitsLe(x, y, i) ==
    IF i = 0 THEN TRUE
    ELSE IF x[i] # y[i] THEN x[i] < y[i]
    ELSE DigitsLe(x, y, i - 1)

\* The exact sum of the first n flushed values.
RECURSIVE FlushedSum(_)
FlushedSum(n) ==
    IF n = 0 THEN MZero
    ELSE MAdd(FlushedSum(n - 1), Mag(ToFix(zipped_graph[n][2])))

\* The exact weighted sum of the contributions points[1..n].
RECURSIVE ExactWeighted(_, _)
ExactWeighted(points, n) ==
    IF n = 0 THEN MZero
    ELSE MAdd(ExactWeighted(points, n - 1),
              MTimes(Mag(points[n][1]), points[n][2]))

\* The exact weighted sum of the pending contributions.
PendingSum == ExactWeighted(ratio_value_points, Len(ratio_value_points))

\* The exact weighted sums of the first n flushed windows, added up.
RECURSIVE WindowsSum(_)
WindowsSum(n) ==
    IF n = 0 THEN MZero
    ELSE MAdd(WindowsSum(n - 1), ExactWeighted(windows[n], Len(windows[n])))

\* The sum of the values submitted so far.
RECURSIVE SubmittedSum(_)
SubmittedSum(n) ==
    IF n = 0 THEN MZero
    ELSE MAdd(SubmittedSum(n - 1), Mag(FromInt(Coerce(submitted[n]))))

\* The windows in order, the pending one last.
AllWindows == Append(windows, ratio_value_points)

\* Every point has weight 1 in one window, or its weight is split between
\* the end of one window and the start of the next and adds up to exactly 1.
WeightsSplit ==
    \A k \in 1..Len(AllWindows) :
        LET w == AllWindows[k]
        IN  /\ \A i \in 2..(Len(w) - 1) : w[i][1] = FOne
            /\ (k = 1 /\ Len(w) >= 2) => w[1][1] = FOne
            /\ k > 1 =>
                   LET v == AllWindows[k - 1]
                   IN  /\ w # <<>>
                       /\ w[1][2] = v[Len(v)][2]
                       /\ MAdd(Mag(w[1][1]), Mag(v[Len(v)][1])) = Mag(FOne)

\* C16, as claimed: in a compressing GraphZipper every point's weight is 1,
\* split over at most two adjacent windows, and compression_ratio times the
\* sum of the flushed values plus the weighted sum of the pending
\* contributions equals the sum of the submitted values.
C16_FlushedIdentity ==
    Compressing =>
        /\ WeightsSplit
        /\ Times(Mag(compression_ratio), FlushedSum(Len(zipped_graph)))
              = Times(MSub(SubmittedSum(Len(submitted)), PendingSum), Mag(FOne))

\* C16, amended: every point's weight is 1, split over at most two adjacent
\* windows; the weighted sums of the flushed windows plus the weighted sum
\* of the pending contributions equal the sum of the submitted values; and
\* compression_ratio times the sum of the flushed values differs from the
\* weighted sums of the flushed windows by less than 2^-45.
C16_WeightsConserved ==
    Compressing =>
        /\ WeightsSplit
        /\ MAdd(WindowsSum(Len(windows)), PendingSum)
              = SubmittedSum(Len(submitted))
        /\ DigitsLe(Times(Mag(compression_ratio),
                          FlushedSum(Len(zipped_graph))),
                    Times(MAdd(WindowsSum(Len(windows)), <<0, 2 ^ 10>>),
                          Mag(FOne)), 8)
        /\ DigitsLe(Times(WindowsSum(Len(windows)), Mag(FOne)),
                    AddDigits(Times(Mag(compression_ratio),
                                    FlushedSum(Len(zipped_graph))),
                              Times(<<0, 2 ^ 10>>, Mag(FOne)), 1, 0), 8)

\* Two windows were flushed, a point of value 7 is split between them, and
\* compression_ratio times the flushed values is not what was submitted.
C16_Witness ==
    /\ Compressing
    /\ Len(windows) >= 2
    /\ windows[2][1][2] = 7
    /\ FLt(windows[2][1][1], FOne)
    /\ Times(Mag(compression_ratio), FlushedSum(Len(zipped_graph)))
          # Times(MSub(SubmittedSum(Len(submitted)), PendingSum), Mag(FOne))

\* C18: in a GraphZipper with base_size > zipped_size >= 1 the add_point call
\* that submits the base_size-th point flushes a window and leaves no pending
\* weight: after base_size points cached_ratios_sum is 0 and zipped_graph
\* holds exactly zipped_size points.
C18_LastPointFlushes ==
    (base_size > zipped_size /\ zipped_size >= 1 /\ point_order = base_size) =>
        /\ cached_ratios_sum = FZero
        /\ Len(zipped_graph) = zipped_size

\* --------------------------------------------------------- compress claims
Result == compressed.result[1]

\* C6: for limit < len(data), limit = 0 included, compress returns at most
\* limit points.
C6_AtMostLimit ==
    (compressed.outcome = "returned" /\ limit < Len(data))
        => Len(Result) <= limit

\* C7: the positions compress returns increase strictly and lie between 1 and
\* len(data); the trailing flush does not repeat the last position flushed in
\* the loop.
C7_CompressPositions ==
    compressed.outcome = "returned" =>
        /\ \A i \in 1..Len(Result) :
               Result[i][1] >= 1 /\ Result[i][1] <= Len(data)
        /\ \A i \in 1..(Len(Result) - 1) : Result[i][1] < Result[i + 1][1]

\* A run flushed in the loop, and the open run after it flushed at the end.
C7_Witness ==
    /\ compressed.outcome = "returned"
    /\ limit < Len(data)
    /\ Len(Result) >= 2
    /\ ~CompressLoop(data, Factor(limit, Len(data)), Len(data)).first
    /\ Result[Len(Result)][1] = Len(data)

\* C8: for limit >= len(data), compress returns one point per input, the
\* i-th being (i, normalize(data[i])).
C8_NoCompression ==
    (compressed.outcome # "none" /\ limit >= Len(data)) =>
        /\ compressed.outcome = "returned"
        /\ Len(Result) = Len(data)
        /\ \A i \in 1..Len(data) : Result[i] = <<i, Normalize(data[i])>>

\* Three inputs or more, one of them changed by normalize.
C8_Witness ==
    /\ compressed.outcome = "returned"
    /\ limit >= Len(data)
    /\ Len(data) >= 3
    /\ \E i \in 1..Len(data) : Result[i][2] # data[i]

\* The value of the run data[from..to]: the first input normalized, every
\* later one merged into it.
RECURSIVE RunValue(_, _, _)
RunValue(d, from, to) ==
    IF to = from THEN Normalize(d[from])
    ELSE Merge(RunValue(d, from, to - 1), d[to])

\* The result is a partition of data into runs: the k-th point sits at the
\* last index of its run, the run starts just after the point before, the
\* point's value is the run's value, and the last point sits at len(data).
RunsPartition ==
    /\ compressed.outcome = "returned"
    /\ Result # <<>>
    /\ Result[Len(Result)][1] = Len(data)
    /\ \A k \in 1..Len(Result) :
           LET from == IF k = 1 THEN 1 ELSE Result[k - 1][1] + 1
           IN  /\ from <= Result[k][1]
               /\ Result[k][2] = RunValue(data, from, Result[k][1])

\* C17, as claimed: for every data and limit < len(data) the runs merged by
\* compress partition the input, each point at the last index of its run and
\* the last point at len(data).
C17_RunsPartitionAll ==
    (compressed.outcome # "none" /\ limit < Len(data)) => RunsPartition

\* C17, amended: the same for every non-empty data; for empty data and a
\* negative limit compress fails with ZeroDivisionError.
C17_RunsPartitionNonEmpty ==
    (compressed.outcome # "none" /\ limit < Len(data)) =>
        IF data = <<>> THEN compressed = Raised("ZeroDivisionError")
        ELSE RunsPartition

\* Five inputs in three runs: two flushed in the loop, the second with a value
\* that merging changed, and the third left open by the loop and flushed at
\* the last index.
C17_Witness ==
    /\ compressed.outcome = "returned"
    /\ Len(data) = 5 /\ limit = 3
    /\ Len(Result) = 3
    /\ Result[1][1] = 2 /\ Result[2][1] = 4 /\ Result[3][1] = 5
    /\ ~CompressLoop(data, Factor(limit, Len(data)), Len(data)).first
    /\ Result[2][2] # Normalize(data[3])
    /\ Result[2][2] # Normalize(data[4])

Count(vs, v) == Cardinality({i \in 1..Len(vs) : vs[i] = v})

\* C14: median leaves the caller's list as it is; percentile on a list that
\* is not empty leaves it in ascending order, with the same contents.
C14_CallersList ==
    [][/\ stat_call' = "median" => values' = values
       /\ (stat_call' = "percentile" /\ values # <<>>) =>
              /\ Len(values') = Len(values)
              /\ \A v \in 0..MaxSample : Count(values', v) = Count(values, v)
              /\ \A i \in 1..(Len(values') - 1) : values'[i] <= values'[i + 1]]_vars

\* A list given out of order, sorted by percentile, and left so by median.
C14_Witness ==
    /\ stat_call = "median"
    /\ given = <<2, 0, 1>>
    /\ values = <<0, 1, 2>>

\* The percent 0.5.
Half == PercentOf(1, 2)

ActionNames ==
    LET r == actions_data.result[1]
    IN  [i \in 1..(Len(r) - 1) |-> r[i][1]]

\* The keys of the first row of raw_data in the set of row numbers rows, or no
\* keys when the set is empty.
KeysOfFirst(rows) ==
    IF rows = {} THEN <<>>
    ELSE LET n == CHOOSE n \in rows : \A m \in rows : n <= m
         IN  Keys(raw_data[n].atomic_actions)

\* C10, as claimed: the names come from the first record with error = false
\* and a non-empty atomic-actions mapping; a non-error record with an empty
\* mapping before it is passed over.
C10_FirstNonEmpty ==
    actions_data.outcome = "returned" =>
        ActionNames = KeysOfFirst({n \in 1..Len(raw_data) :
                                       /\ ~raw_data[n].error
                                       /\ raw_data[n].has_actions
                                       /\ raw_data[n].atomic_actions # <<>>})

\* C10, amended: the names come from the first record with error = false that
\* has an atomic-actions mapping, empty or not.
C10_FirstNonError ==
    actions_data.outcome = "returned" =>
        ActionNames = KeysOfFirst({n \in 1..Len(raw_data) :
                                       /\ ~raw_data[n].error
                                       /\ raw_data[n].has_actions})

\* A non-error record with an empty mapping, then a non-error record with
\* names: the first one decides, and no names are returned.
C10_Witness ==
    /\ actions_data.outcome = "returned"
    /\ Len(raw_data) = 2
    /\ ~raw_data[1].error /\ raw_data[1].has_actions
    /\ raw_data[1].atomic_actions = <<>>
    /\ ~raw_data[2].error /\ raw_data[2].atomic_actions # <<>>
    /\ ActionNames = <<>>

\* The k-th smallest number of a finite set of numbers.
NthOf(S, k) == CHOOSE n \in S : Cardinality({m \in S : m < n}) = k - 1

\* The records of raw_data, by number, that time the action name with a
\* duration that is not None.
Timing(name) ==
    {n \in 1..Len(raw_data) :
        \E i \in 1..Len(raw_data[n].atomic_actions) :
            /\ raw_data[n].atomic_actions[i].name = name
            /\ raw_data[n].atomic_actions[i].value # <<>>}

\* The duration record n gives for the action name.
TimeOf(n, name) ==
    LET m == raw_data[n].atomic_actions
    IN  m[CHOOSE i \in 1..Len(m) : m[i].name = name].value[1]

\* C11: in the result, "total" is the durations of the records with
\* error = false in record order, and each action's list is that action's
\* duration from every record, error or not, that has it and not None, in
\* record order.
C11_Series ==
    actions_data.outcome = "returned" =>
        LET r    == actions_data.result[1]
            good == {n \in 1..Len(raw_data) : ~raw_data[n].error}
        IN  /\ r[Len(r)] = <<"total", [k \in 1..Cardinality(good) |->
                                           raw_data[NthOf(good, k)].duration]>>
            /\ \A i \in 1..(Len(r) - 1) :
                   r[i][2] = [k \in 1..Cardinality(Timing(r[i][1])) |->
                                 TimeOf(NthOf(Timing(r[i][1]), k), r[i][1])]

\* A record with an error that times "a", then a good record that times it
\* differently: both are in the list of "a", only the second in "total".
C11_Witness ==
    /\ actions_data.outcome = "returned"
    /\ Len(raw_data) = 2
    /\ raw_data[1].error /\ ~raw_data[2].error
    /\ actions_data.result[1] = <<<<"a", <<2, 1>>>>, <<"total", <<1>>>>>>

====
